---- MODULE Spec2Model ----
(***************************************************************************)
(* Payment & entitlement reconciliation of the FakeLive API worker:        *)
(* POST /create-order and POST /capture-order (routes/payments.ts), the    *)
(* PayPal webhook handler POST /paypal (routes/webhooks.ts) and the rate   *)
(* limiter (lib/rate-limit.ts), over the D1 tables payments,               *)
(* premium_status, paypal_webhooks and rate_limits.                        *)
(*                                                                         *)
(* Every request is handled by its own execution unit.  A handler runs     *)
(* from one `await` to the next in one step; between two steps the steps   *)
(* of other handlers may be interleaved.  Amounts are in cents, instants   *)
(* in seconds (the resolution of the integer timestamp columns).           *)
(***************************************************************************)
EXTENDS Integers, Sequences, FiniteSets, Bags, TLC

\* ------------------------------------------------------------ bounds
MaxOrders == 2        \* gateway orders the gateway opens in one run
MaxTicks == 1         \* times the clock advances in one run
MaxAttemptRows == 2   \* rate_limits rows written in a run across the order lifecycle
MaxBurstRows == 6     \* rate_limits rows written in a run of create-order bursts
MaxKeyRows == 3       \* rate_limits rows written in a run of keyed create-order requests
MaxRaceRows == 3      \* rate_limits rows written in a run of overlapping create-order requests
MaxTenantRows == 4    \* rate_limits rows written by two principals ordering one after the other
MaxReplayRows == 6    \* rate_limits rows written in a run of replayed create-order requests
MaxFloodRows == 7     \* rate_limits rows written in a run of overlapping requests of one principal
MaxLimiterRows == 7   \* rate_limits rows in a run of checkRateLimit and cleanupRateLimits calls
MaxRenewRows == 2     \* rate_limits rows written in a run of repeated purchases

\* -------------------------------------------------- program constants
MonthlyPrice == 499
YearlyPrice == 2999
MonthlyDays == 30
YearlyDays == 365
SecondsPerDay == 86400
RateMaxAttempts == 5
RateWindowSeconds == 3600
CleanupHours == 24
SecondsPerHour == 3600

TIER_PRICES == [monthly |-> MonthlyPrice, yearly |-> YearlyPrice]

\* ------------------------------------------------------ input domains
Users == {"u1", "u2"}
Keys == {"k1", "k2"}
\* the idempotencyKey of a body that carries the empty string
EmptyKey == ""
ValidTiers == {"monthly", "yearly"}
Tiers == ValidTiers \cup {"weekly"}
OrderIds == 1..MaxOrders
Handlers == {"h1", "h2"}
TransmissionIds == {"t1", "t2"}
Completed == "PAYMENT.CAPTURE.COMPLETED"
Refunded == "PAYMENT.CAPTURE.REFUNDED"
EventTypes == {Completed, Refunded, "CHECKOUT.ORDER.APPROVED"}
\* amounts a gateway response or notification can carry; NoAmount stands for
\* a notification whose resource has no amount object
NoAmount == 0
Amounts == {MonthlyPrice, YearlyPrice}
\* clock advances: inside the rate-limit window and to its end
HalfWindow == 1800

NoTime == -1
NoRow == [present |-> FALSE]
\* an order of the gateway account that this ledger never held
ForeignOrder == MaxOrders + 1
Sessions == [user : Users, verified : BOOLEAN] \cup {[user |-> "none", verified |-> FALSE]}

VARIABLES
    payments,      \* table payments: gateway order id -> row or NoRow
    premium,       \* table premium_status: user id -> row or NoRow
    webhooks,      \* table paypal_webhooks: the transmission ids stored
    rateLimits,    \* table rate_limits: bag of [userId, action, attemptedAt]
    gateway,       \* the gateway: the next order id, the amount captured per order
    now,           \* the server clock
    ticks,         \* clock advances so far
    hs,            \* the execution units: handler -> its position and locals
    hist           \* what the requests did: the last response, the store before
                   \* the last arrival, the kinds of handler that promoted each
                   \* order and that granted the entitlement on its account, the
                   \* status answered after a rejected insert of a delivery row

store == <<payments, premium, webhooks, rateLimits>>
vars == <<payments, premium, webhooks, rateLimits, gateway, now, ticks, hs, hist>>

\* ------------------------------------------------------------ handlers
\* The request (kind .. amt), the locals of the handler (pc .. gwOrder) and
\* the response (status .. stopped).  calls: the gateway operations the
\* handler called; stopped: the handler did not run to its end; serial: the
\* request arrived while no other was being handled.
Idle == [kind |-> "none", user |-> "none", verified |-> FALSE,
         tier |-> "none", key |-> "none", oid |-> 0, tid |-> "none",
         sig |-> FALSE, ev |-> "none", amt |-> NoAmount,
         pc |-> "idle", at |-> 0, exp |-> NoTime, cnt |-> 0, found |-> FALSE,
         rowUser |-> "none", rowTier |-> "none", gwOrder |-> 0,
         status |-> 0, outOrder |-> 0, outTier |-> "none", outAmt |-> NoAmount,
         outExp |-> NoTime, calls |-> {}, stopped |-> FALSE, serial |-> FALSE,
         action |-> "none"]

\* the request of a handler record, and its request and response
RequestOf(rec) == [f \in {"kind", "user", "verified", "tier", "key", "oid", "tid", "sig", "ev", "amt"} |-> rec[f]]

Answer(rec) == [rec EXCEPT !.pc = "done", !.exp = NoTime, !.cnt = 0, !.found = FALSE,
                           !.rowUser = "none", !.rowTier = "none", !.gwOrder = 0]

\* no response before the request, or the last response was to another request
NoPrev == [status |-> 0, outOrder |-> 0]

Quiescent == \A h \in Handlers : hs[h].pc = "idle"

\* the execution units are interchangeable: a request goes to the first free one
Rank == [h1 |-> 1, h2 |-> 2]

\* The store as one value, for before/after comparisons.
Snapshot == [payments |-> payments, premium |-> premium, webhooks |-> webhooks,
             rateLimits |-> rateLimits]

\* A request arrives at handler h: its body and session are fixed from here.
\* serial: requests arrive one after the other, none while another is being
\* handled; the store at the arrival is then kept in hist.pre, and hist.prev
\* is the response to the request before when that was the same request.
Arrive(req, serial) ==
  \E h \in Handlers :
    /\ hs[h].pc = "idle"
    /\ \A g \in Handlers : hs[g].pc = "idle" => Rank[h] <= Rank[g]
    /\ serial => Quiescent
    /\ hs' = [hs EXCEPT ![h] = [req EXCEPT !.serial = serial]]
    /\ hist' = IF serial
               THEN [hist EXCEPT !.pre = Snapshot, !.last = Idle,
                                 !.prev = IF RequestOf(hist.last) = RequestOf(req) /\ hist.last.serial
                                          THEN [status |-> hist.last.status,
                                                outOrder |-> hist.last.outOrder]
                                          ELSE NoPrev]
               ELSE hist
    /\ UNCHANGED <<payments, premium, webhooks, rateLimits, gateway, now, ticks>>

\* Handler h answers with rec.status and the unit is free again; the response
\* to a serial request is kept in hist.last.
Respond(h, rec) ==
    /\ hs' = [hs EXCEPT ![h] = Idle]
    /\ hist' = [hist EXCEPT !.last = IF rec.serial THEN Answer(rec) ELSE @]

\* Handler h answers after the store rejected its insert of a delivery row.
RespondRejected(h, rec) ==
    /\ hs' = [hs EXCEPT ![h] = Idle]
    /\ hist' = [hist EXCEPT !.last = IF rec.serial THEN Answer(rec) ELSE @,
                            !.rejected = rec.status]

\* Handler h answers and, in the same step, the grant is noted.
RespondGranting(h, rec, oid) ==
    /\ hs' = [hs EXCEPT ![h] = Idle]
    /\ hist' = [hist EXCEPT !.last = IF rec.serial THEN Answer(rec) ELSE @,
                            !.granted[oid] = @ \cup {rec.kind}]

\* ------------------------------------------------------- rate limiter
RECURSIVE SumCopies(_, _)
SumCopies(S, B) ==
    IF S = {} THEN 0
    ELSE LET e == CHOOSE x \in S : TRUE IN CopiesIn(e, B) + SumCopies(S \ {e}, B)

\* the attempts of every principal counted
RecentAttemptsOfAnyone(tbl, userId, action, at, windowSeconds) ==
    SumCopies({r \in BagToSet(tbl) : /\ r.action = action
                                     /\ r.attemptedAt > at - windowSeconds}, tbl)

\* lib/rate-limit.ts checkRateLimit, the select: the attempts of
\* (userId, action) with attemptedAt > now - windowSeconds.
RecentAttempts(tbl, userId, action, at, windowSeconds) ==
    SumCopies({r \in BagToSet(tbl) : /\ r.userId = userId
                                     /\ r.action = action
                                     /\ r.attemptedAt > at - windowSeconds}, tbl)

\* the limit taken one too high
RateAllowedOffByOne(count, maxAttempts) == ~(count > maxAttempts)

\* lib/rate-limit.ts checkRateLimit, the decision on the count read.
RateAllowed(count, maxAttempts) == ~(count >= maxAttempts)

\* the attempt not written
AttemptNotRecorded(tbl, userId, action, at) == tbl

\* lib/rate-limit.ts checkRateLimit, the insert of the attempt.
RecordAttempt(tbl, userId, action, at) ==
    tbl (+) SetToBag({[userId |-> userId, action |-> action, attemptedAt |-> at]})

\* lib/rate-limit.ts checkRateLimit called on its own, one call after the
\* other: the result (1 for true, 0 for false) and the count are kept in
\* hist.last, the store before the call in hist.pre.
CheckRateLimit(users, actions, maxAttempts, windowSeconds, maxRows) ==
    \E u \in users, a \in actions :
        /\ Quiescent
        /\ BagCardinality(rateLimits) < maxRows
        /\ LET cnt == RecentAttempts(rateLimits, u, a, now, windowSeconds)
               ok == RateAllowed(cnt, maxAttempts)
           IN /\ rateLimits' = IF ok THEN RecordAttempt(rateLimits, u, a, now) ELSE rateLimits
              /\ hist' = [hist EXCEPT !.pre = Snapshot, !.prev = NoPrev,
                                      !.last = [Idle EXCEPT !.kind = "checkRateLimit", !.pc = "done",
                                                            !.user = u, !.action = a, !.at = now,
                                                            !.cnt = cnt, !.serial = TRUE,
                                                            !.status = IF ok THEN 1 ELSE 0]]
        /\ UNCHANGED <<payments, premium, webhooks, gateway, now, ticks, hs>>

\* lib/rate-limit.ts cleanupRateLimits: delete from rate_limits where
\* attempted_at > cutoff, cutoff = now - olderThanHours hours
SweptRateLimits(tbl, at, olderThanHours) ==
    LET cutoff == at - olderThanHours * SecondsPerHour
        kept == {r \in BagToSet(tbl) : ~(r.attemptedAt > cutoff)}
    IN [r \in kept |-> CopiesIn(r, tbl)]

CleanupRateLimits(olderThanHours) ==
    /\ Quiescent
    /\ rateLimits # EmptyBag
    /\ rateLimits' = SweptRateLimits(rateLimits, now, olderThanHours)
    /\ hist' = [hist EXCEPT !.pre = Snapshot, !.prev = NoPrev,
                            !.last = [Idle EXCEPT !.kind = "cleanupRateLimits", !.pc = "done",
                                                  !.at = now, !.serial = TRUE]]
    /\ UNCHANGED <<payments, premium, webhooks, gateway, now, ticks, hs>>

\* ------------------------------------------------------- create-order
\* requireAuth, requireVerifiedEmail: the status the middleware answers
\* with, 0 when the request passes.
RequireAuth(session) == IF session.user = "none" THEN 401 ELSE 0

\* the emailVerified flag not looked at
RequireSessionOnly(session) == IF session.user = "none" THEN 401 ELSE 0

RequireVerifiedEmail(session) ==
    IF session.user = "none" THEN 401
    ELSE IF ~session.verified THEN 403 ELSE 0

\* The requests that differ in what the handler reads of them: the body of a
\* request the middleware refuses is not read, nor the key beside a bad tier.
CreateOrderBodies(sessions, tiers, keys) ==
    {r \in [session : sessions, tier : tiers, key : keys \cup {"none"}] :
        /\ RequireVerifiedEmail(r.session) # 0 => r.tier = "none"
        /\ RequireVerifiedEmail(r.session) = 0 => r.tier # "none"
        /\ r.tier \notin ValidTiers <=> r.key = "none"}

\* a create-order request arrives; maxRows caps the rate_limits rows of a run
CreateOrderRequest(sessions, tiers, keys, maxRows, serial) ==
    \E r \in CreateOrderBodies(sessions, tiers \cup {"none"}, keys) :
        /\ BagCardinality(rateLimits) + Cardinality({g \in Handlers : hs[g].kind = "create-order"}) < maxRows
        /\ Arrive([Idle EXCEPT !.pc = "co_auth", !.kind = "create-order",
                               !.user = r.session.user, !.verified = r.session.verified,
                               !.tier = r.tier, !.key = r.key], serial)

\* middleware chain requireAuth, requireVerifiedEmail
CreateOrderAuth ==
    \E h \in Handlers :
        /\ hs[h].pc = "co_auth"
        /\ LET s == [user |-> hs[h].user, verified |-> hs[h].verified]
               st == IF RequireAuth(s) # 0 THEN RequireAuth(s) ELSE RequireVerifiedEmail(s)
           IN IF st # 0
              THEN Respond(h, [hs[h] EXCEPT !.status = st])
              ELSE /\ hs' = [hs EXCEPT ![h].pc = "co_rlRead"]
                   /\ UNCHANGED hist
        /\ UNCHANGED <<payments, premium, webhooks, rateLimits, gateway, now, ticks>>

\* checkRateLimit: `now` is taken and the recent attempts are counted
CreateOrderRateRead ==
    \E h \in Handlers :
        /\ hs[h].pc = "co_rlRead"
        /\ hs' = [hs EXCEPT ![h].pc = "co_rlWrite", ![h].at = now,
                            ![h].cnt = RecentAttempts(rateLimits, hs[h].user, "create_payment",
                                                      now, RateWindowSeconds)]
        /\ UNCHANGED <<payments, premium, webhooks, rateLimits, gateway, now, ticks, hist>>

\* checkRateLimit: refuse, or record the attempt; then the tier is validated
CreateOrderRateWrite ==
    \E h \in Handlers :
        /\ hs[h].pc = "co_rlWrite"
        /\ IF ~RateAllowed(hs[h].cnt, RateMaxAttempts)
           THEN /\ Respond(h, [hs[h] EXCEPT !.status = 429])
                /\ UNCHANGED rateLimits
           ELSE /\ rateLimits' = RecordAttempt(rateLimits, hs[h].user, "create_payment", hs[h].at)
                /\ IF hs[h].tier \notin ValidTiers
                   THEN Respond(h, [hs[h] EXCEPT !.status = 400])
                   ELSE /\ hs' = [hs EXCEPT ![h].pc = "co_idem", ![h].cnt = 0]
                        /\ UNCHANGED hist
        /\ UNCHANGED <<payments, premium, webhooks, gateway, now, ticks>>

\* select from payments where paypal_order_id = oid
RowOf(oid) == IF oid \in OrderIds THEN payments[oid] ELSE NoRow

\* the lookup left out
NoRowsOfKey(userId, key) == {}

\* only pending rows found by the lookup
PendingRowsOfKey(userId, key) ==
    {o \in OrderIds : /\ payments[o] # NoRow
                      /\ payments[o].userId = userId
                      /\ payments[o].idempotencyKey = key
                      /\ payments[o].status = "pending"}

\* the rows of (userId, idempotencyKey)
RowsOfKey(userId, key) ==
    {o \in OrderIds : /\ payments[o] # NoRow
                      /\ payments[o].userId = userId
                      /\ payments[o].idempotencyKey = key}

\* select the existing payment of (userId, idempotencyKey)
CreateOrderIdempotency ==
    \E h \in Handlers :
        /\ hs[h].pc = "co_idem"
        /\ LET rows == RowsOfKey(hs[h].user, hs[h].key)
           IN IF rows # {}
              THEN \E o \in rows :
                       Respond(h, [hs[h] EXCEPT !.status = 200, !.outOrder = o,
                                                !.outTier = payments[o].tier,
                                                !.outAmt = payments[o].amount])
              ELSE /\ hs' = [hs EXCEPT ![h].pc = "co_premium"]
                   /\ UNCHANGED hist
        /\ UNCHANGED <<payments, premium, webhooks, rateLimits, gateway, now, ticks>>

\* the comparison with the clock turned round
LapsedPremium(row, at) ==
    /\ row # NoRow
    /\ row.isPremium
    /\ row.expiresAt # NoTime
    /\ row.expiresAt < at

\* the entitlement guard: isPremium && expiresAt && expiresAt > now
ActivePremium(row, at) ==
    /\ row # NoRow
    /\ row.isPremium
    /\ row.expiresAt # NoTime
    /\ row.expiresAt > at

CreateOrderPremium ==
    \E h \in Handlers :
        /\ hs[h].pc = "co_premium"
        /\ IF ActivePremium(premium[hs[h].user], now)
           THEN Respond(h, [hs[h] EXCEPT !.status = 400])
           ELSE /\ hs' = [hs EXCEPT ![h].pc = "co_gateway"]
                /\ UNCHANGED hist
        /\ UNCHANGED <<payments, premium, webhooks, rateLimits, gateway, now, ticks>>

\* every tier charged the monthly price
OrderAmountFlat(tier) == MonthlyPrice

\* const amount = TIER_PRICES[tier], in cents: the two decimals that
\* amount.toFixed(2) writes into the gateway order
OrderAmount(tier) == TIER_PRICES[tier]

\* the gateway's answer taken for an order whatever the response status
CreatePayPalOrderUnchecked(ok, nextOrder) == nextOrder

\* createPayPalOrder: the id of the order in the gateway's answer; 0 stands
\* for the throw on a response that is not ok (or on a failed fetch)
CreatePayPalOrder(ok, nextOrder) == IF ok THEN nextOrder ELSE 0

\* createPayPalOrder: the gateway opens an order for the amount, or the call
\* fails and throws into the catch
CreateOrderGateway ==
    \E h \in Handlers, ok \in BOOLEAN :
        /\ hs[h].pc = "co_gateway"
        /\ ok => gateway.nextOrder <= MaxOrders
        /\ gateway' = IF ok THEN [gateway EXCEPT !.nextOrder = @ + 1,
                                                  !.opened[gateway.nextOrder] = OrderAmount(hs[h].tier)]
                            ELSE gateway
        /\ LET order == CreatePayPalOrder(ok, gateway.nextOrder)
               called == hs[h].calls \cup (IF ok THEN {"create"} ELSE {"create", "create-failed"})
           IN IF order # 0
              THEN /\ hs' = [hs EXCEPT ![h].pc = "co_insert", ![h].gwOrder = order,
                                       ![h].calls = called]
                   /\ hist' = [hist EXCEPT !.openedFor[order] = [user |-> hs[h].user, key |-> hs[h].key]]
              ELSE Respond(h, [hs[h] EXCEPT !.status = 500, !.calls = called])
        /\ UNCHANGED <<payments, premium, webhooks, rateLimits, now, ticks>>

\* the unique index on idempotency_key missing
OrderIdUniqueOnly(oid, key) == RowOf(oid) = NoRow

\* the unique indexes of payments: paypal_order_id, idempotency_key
PaymentInsertAllowed(oid, key) ==
    /\ RowOf(oid) = NoRow
    /\ \A o \in OrderIds : payments[o] # NoRow => payments[o].idempotencyKey # key

NewPayment(userId, tier, amount, key) ==
    [present |-> TRUE, userId |-> userId, tier |-> tier, amount |-> amount,
     status |-> "pending", idempotencyKey |-> key, expiresAt |-> NoTime]

\* insert the pending row; a unique-index violation throws into the catch
CreateOrderInsert ==
    \E h \in Handlers :
        /\ hs[h].pc = "co_insert"
        /\ IF PaymentInsertAllowed(hs[h].gwOrder, hs[h].key)
           THEN /\ payments' = [payments EXCEPT ![hs[h].gwOrder] =
                                   NewPayment(hs[h].user, hs[h].tier, OrderAmount(hs[h].tier), hs[h].key)]
                /\ Respond(h, [hs[h] EXCEPT !.status = 200, !.outOrder = hs[h].gwOrder,
                                            !.outTier = hs[h].tier,
                                            !.outAmt = OrderAmount(hs[h].tier)])
           ELSE /\ UNCHANGED payments
                /\ Respond(h, [hs[h] EXCEPT !.status = 500])
        /\ UNCHANGED <<premium, webhooks, rateLimits, gateway, now, ticks>>

\* ------------------------------------------------------ capture-order
\* every tier given the thirty days of the monthly one
ExpiryOfMonth(tier, at) == at + MonthlyDays * SecondsPerDay

\* expiresAt.setDate(expiresAt.getDate() + 30 | 365)
ExpiryOf(tier, at) ==
    IF tier = "monthly" THEN at + MonthlyDays * SecondsPerDay
    ELSE at + YearlyDays * SecondsPerDay

\* update payments set status = 'completed', expiresAt where id = payment[0].id
CompletedRow(row, exp) == [row EXCEPT !.status = "completed", !.expiresAt = exp]

\* update payments set status = 'failed' where id = payment[0].id
FailedRow(row) == [row EXCEPT !.status = "failed"]

\* the premium_status row written by a grant (update and insert set the same fields)
GrantedPremium(tier, exp) ==
    [present |-> TRUE, isPremium |-> TRUE, tier |-> tier, expiresAt |-> exp]

\* only an underpayment refused
Underpaid(actual, tier) == actual < TIER_PRICES[tier]

\* parseFloat(capture...amount.value) !== TIER_PRICES[payment[0].tier]
AmountMismatch(actual, tier) == actual # TIER_PRICES[tier]

\* the status check left out
NeverProcessedOrder(row) == FALSE

\* payment[0].status !== 'pending': 'Payment already processed'
AlreadyProcessedOrder(row) == row.status # "pending"

\* the owner of the row not compared
AnyRow(row, userId) == row # NoRow

\* select ... where paypalOrderId = orderId and userId = userId: a row is found
OwnRow(row, userId) == row # NoRow /\ row.userId = userId

CaptureRequest(sessions, orders, serial) ==
    \E s \in sessions, o \in orders \cup {0} :
        /\ s.user = "none" <=> o = 0
        /\ Arrive([Idle EXCEPT !.pc = "cap_read", !.kind = "capture-order",
                                  !.user = s.user, !.verified = s.verified, !.oid = o], serial)

\* requireAuth, then select the payment of (orderId, userId); 404 and 400
CaptureRead ==
    \E h \in Handlers :
        /\ hs[h].pc = "cap_read"
        /\ LET s == [user |-> hs[h].user, verified |-> hs[h].verified]
               row == RowOf(hs[h].oid)
           IN IF RequireAuth(s) # 0
              THEN Respond(h, [hs[h] EXCEPT !.status = RequireAuth(s)])
              ELSE IF ~OwnRow(row, hs[h].user)
              THEN Respond(h, [hs[h] EXCEPT !.status = 404])
              ELSE IF AlreadyProcessedOrder(row)
              THEN Respond(h, [hs[h] EXCEPT !.status = 400])
              ELSE /\ hs' = [hs EXCEPT ![h].pc = "cap_gateway", ![h].rowUser = row.userId,
                                       ![h].rowTier = row.tier]
                   /\ UNCHANGED hist
        /\ UNCHANGED <<payments, premium, webhooks, rateLimits, gateway, now, ticks>>

\* capturePayPalOrder.  The gateway captures an order once: it refuses
\* (the call throws), or it captures amount a and answers, or it captures
\* and the answer is lost (the call throws after the charge).  With the
\* answer the amount is compared and `now`, expiresAt are computed.
CaptureGateway ==
    \E h \in Handlers, out \in {"refused", "answered", "lost"}, a \in Amounts :
        /\ hs[h].pc = "cap_gateway"
        /\ IF out = "refused" \/ gateway.captured[hs[h].oid] # NoAmount
           THEN /\ out = "refused" /\ a = MonthlyPrice
                /\ UNCHANGED gateway
                /\ Respond(h, [hs[h] EXCEPT !.status = 500, !.calls = @ \cup {"capture"}])
           ELSE /\ gateway' = [gateway EXCEPT !.captured[hs[h].oid] = a]
                /\ IF out = "lost"
                   THEN Respond(h, [hs[h] EXCEPT !.status = 500, !.calls = @ \cup {"capture"}])
                   ELSE /\ hs' = [hs EXCEPT ![h].pc = IF AmountMismatch(a, hs[h].rowTier)
                                                      THEN "cap_fail" ELSE "cap_update",
                                            ![h].outAmt = a, ![h].at = now,
                                            ![h].exp = ExpiryOf(hs[h].rowTier, now),
                                            ![h].calls = @ \cup {"capture"}]
                        /\ UNCHANGED hist
        /\ UNCHANGED <<payments, premium, webhooks, rateLimits, now, ticks>>

\* amount mismatch: the order is marked failed, 400
CaptureFail ==
    \E h \in Handlers :
        /\ hs[h].pc = "cap_fail"
        /\ payments' = [payments EXCEPT ![hs[h].oid] = FailedRow(@)]
        /\ Respond(h, [hs[h] EXCEPT !.status = 400])
        /\ UNCHANGED <<premium, webhooks, rateLimits, gateway, now, ticks>>

\* update payments: completed
CaptureUpdate ==
    \E h \in Handlers :
        /\ hs[h].pc = "cap_update"
        /\ payments' = [payments EXCEPT ![hs[h].oid] = CompletedRow(@, hs[h].exp)]
        /\ hs' = [hs EXCEPT ![h].pc = "cap_readPremium"]
        /\ hist' = [hist EXCEPT !.promoted[hs[h].oid] = @ \cup {hs[h].kind}]
        /\ UNCHANGED <<premium, webhooks, rateLimits, gateway, now, ticks>>

\* select premium_status of the user
CaptureReadPremium ==
    \E h \in Handlers :
        /\ hs[h].pc = "cap_readPremium"
        /\ hs' = [hs EXCEPT ![h].pc = "cap_writePremium", ![h].found = premium[hs[h].user] # NoRow]
        /\ UNCHANGED <<payments, premium, webhooks, rateLimits, gateway, now, ticks, hist>>

\* update or insert premium_status; an insert beside an existing row violates
\* premium_status_user_id_unique and throws into the catch
CaptureWritePremium ==
    \E h \in Handlers :
        /\ hs[h].pc = "cap_writePremium"
        /\ IF ~hs[h].found /\ premium[hs[h].user] # NoRow
           THEN /\ UNCHANGED premium
                /\ Respond(h, [hs[h] EXCEPT !.status = 500])
           ELSE /\ premium' = [premium EXCEPT ![hs[h].user] = GrantedPremium(hs[h].rowTier, hs[h].exp)]
                /\ RespondGranting(h, [hs[h] EXCEPT !.status = 200, !.outTier = hs[h].rowTier,
                                                    !.outExp = hs[h].exp], hs[h].oid)
        /\ UNCHANGED <<payments, webhooks, rateLimits, gateway, now, ticks>>

\* ------------------------------------------------------------ webhook
\* The notifications that differ in what the handler reads of them: a
\* notification without transmission id or with a bad signature is not read
\* further; only a capture event names an order, only a completed one an amount.
Notifications(tids, orders) ==
    {n \in [tid : tids \cup {"none"}, sig : BOOLEAN, ev : EventTypes \cup {"none"},
            oid : orders \cup {0}, amt : Amounts \cup {NoAmount}] :
        /\ n.tid = "none" => ~n.sig
        /\ n.sig <=> n.ev # "none"
        /\ n.ev \in {Completed, Refunded} <=> n.oid # 0
        /\ n.ev = Completed <=> n.amt # NoAmount}

\* An authentic notification about an order of the ledger tells what the
\* gateway did: the order was captured, for the amount the notification names.
FromGateway(n) ==
    (n.sig /\ n.oid \in OrderIds) =>
        /\ gateway.captured[n.oid] # NoAmount
        /\ n.ev = Completed => n.amt = gateway.captured[n.oid]

WebhookRequest(notes, serial) ==
    \E n \in notes :
        /\ FromGateway(n)
        /\ n.oid = ForeignOrder => n.amt \in {NoAmount, MonthlyPrice}
        /\ Arrive([Idle EXCEPT !.pc = "wh_lookup", !.kind = "webhook", !.tid = n.tid,
                               !.sig = n.sig, !.ev = n.ev, !.oid = n.oid, !.amt = n.amt], serial)

\* the replay guard left out
NeverProcessed(tid) == FALSE

\* select from paypal_webhooks where transmission_id = tid: a row exists
AlreadyProcessed(tid) == tid \in webhooks

\* any answer of the verification service taken for a success
SignaturePresent(sig) == sig \in BOOLEAN

\* the verification result ignored
AnySignature(sig) == TRUE

\* verifyWebhookSignature: verification_status === 'SUCCESS'
SignatureValid(sig) == sig

\* the header check left out
TransmissionIdOptional(tid) == FALSE

\* if (!transmissionId): the paypal-transmission-id header is absent
MissingTransmissionId(tid) == tid = "none"

\* missing transmission id: 400; replay guard: select by transmission id
WebhookLookup ==
    \E h \in Handlers :
        /\ hs[h].pc = "wh_lookup"
        /\ IF MissingTransmissionId(hs[h].tid)
           THEN Respond(h, [hs[h] EXCEPT !.status = 400])
           ELSE IF AlreadyProcessed(hs[h].tid)
           THEN Respond(h, [hs[h] EXCEPT !.status = 200])
           ELSE /\ hs' = [hs EXCEPT ![h].pc = "wh_verify"]
                /\ UNCHANGED hist
        /\ UNCHANGED <<payments, premium, webhooks, rateLimits, gateway, now, ticks>>

\* verifyWebhookSignature: 401 when the notification is not authentic
WebhookVerify ==
    \E h \in Handlers :
        /\ hs[h].pc = "wh_verify"
        /\ IF ~SignatureValid(hs[h].sig)
           THEN Respond(h, [hs[h] EXCEPT !.status = 401, !.calls = @ \cup {"verify"}])
           ELSE /\ hs' = [hs EXCEPT ![h].pc = "wh_insert", ![h].calls = @ \cup {"verify"}]
                /\ UNCHANGED hist
        /\ UNCHANGED <<payments, premium, webhooks, rateLimits, gateway, now, ticks>>

\* every event only recorded, none applied
AckOnly(ev, oid) == "wh_ack"

\* where the handler goes after the delivery row is stored
Dispatch(ev, oid) ==
    IF ev = Completed /\ oid # 0 THEN "wh_find"
    ELSE IF ev = Refunded /\ oid # 0 THEN "wh_rfind"
    ELSE "wh_ack"

\* insert the delivery row; a second row of the same transmission id violates
\* the primary key and the handler throws (no catch: 500)
WebhookInsert ==
    \E h \in Handlers :
        /\ hs[h].pc = "wh_insert"
        /\ IF hs[h].tid \in webhooks
           THEN /\ UNCHANGED webhooks
                /\ RespondRejected(h, [hs[h] EXCEPT !.status = 500])
           ELSE /\ webhooks' = webhooks \cup {hs[h].tid}
                /\ IF Dispatch(hs[h].ev, hs[h].oid) = "wh_ack"
                   THEN Respond(h, [hs[h] EXCEPT !.status = 200])
                   ELSE /\ hs' = [hs EXCEPT ![h].pc = Dispatch(hs[h].ev, hs[h].oid)]
                        /\ UNCHANGED hist
        /\ UNCHANGED <<payments, premium, rateLimits, gateway, now, ticks>>

\* the status of the row not looked at
AnyPayment(row) == row # NoRow

\* payment.length > 0 && payment[0].status === 'pending'
PendingPayment(row) == row # NoRow /\ row.status = "pending"

\* PAYMENT.CAPTURE.COMPLETED: select the payment by order id; only a pending
\* row with the canonical amount is promoted
WebhookFind ==
    \E h \in Handlers :
        /\ hs[h].pc = "wh_find"
        /\ LET row == RowOf(hs[h].oid)
           IN IF ~PendingPayment(row)
              THEN Respond(h, [hs[h] EXCEPT !.status = 200])
              ELSE IF AmountMismatch(hs[h].amt, row.tier)
              THEN Respond(h, [hs[h] EXCEPT !.status = 200])
              ELSE /\ hs' = [hs EXCEPT ![h].pc = "wh_update", ![h].rowUser = row.userId,
                                       ![h].rowTier = row.tier, ![h].at = now,
                                       ![h].exp = ExpiryOf(row.tier, now)]
                   /\ UNCHANGED hist
        /\ UNCHANGED <<payments, premium, webhooks, rateLimits, gateway, now, ticks>>

WebhookUpdate ==
    \E h \in Handlers :
        /\ hs[h].pc = "wh_update"
        /\ payments' = [payments EXCEPT ![hs[h].oid] = CompletedRow(@, hs[h].exp)]
        /\ hs' = [hs EXCEPT ![h].pc = "wh_readPremium"]
        /\ hist' = [hist EXCEPT !.promoted[hs[h].oid] = @ \cup {hs[h].kind}]
        /\ UNCHANGED <<premium, webhooks, rateLimits, gateway, now, ticks>>

WebhookReadPremium ==
    \E h \in Handlers :
        /\ hs[h].pc = "wh_readPremium"
        /\ hs' = [hs EXCEPT ![h].pc = "wh_writePremium", ![h].found = premium[hs[h].rowUser] # NoRow]
        /\ UNCHANGED <<payments, premium, webhooks, rateLimits, gateway, now, ticks, hist>>

WebhookWritePremium ==
    \E h \in Handlers :
        /\ hs[h].pc = "wh_writePremium"
        /\ IF ~hs[h].found /\ premium[hs[h].rowUser] # NoRow
           THEN /\ UNCHANGED premium
                /\ Respond(h, [hs[h] EXCEPT !.status = 500])
           ELSE /\ premium' = [premium EXCEPT ![hs[h].rowUser] = GrantedPremium(hs[h].rowTier, hs[h].exp)]
                /\ RespondGranting(h, [hs[h] EXCEPT !.status = 200], hs[h].oid)
        /\ UNCHANGED <<payments, webhooks, rateLimits, gateway, now, ticks>>

\* PAYMENT.CAPTURE.REFUNDED: select the payment by order id
WebhookRefundFind ==
    \E h \in Handlers :
        /\ hs[h].pc = "wh_rfind"
        /\ LET row == RowOf(hs[h].oid)
           IN IF row = NoRow
              THEN Respond(h, [hs[h] EXCEPT !.status = 200])
              ELSE /\ hs' = [hs EXCEPT ![h].pc = "wh_rupdate", ![h].rowUser = row.userId]
                   /\ UNCHANGED hist
        /\ UNCHANGED <<payments, premium, webhooks, rateLimits, gateway, now, ticks>>

\* update payments set status = 'refunded' where id = payment[0].id
RefundedRow(row) == [row EXCEPT !.status = "refunded"]

WebhookRefundUpdate ==
    \E h \in Handlers :
        /\ hs[h].pc = "wh_rupdate"
        /\ payments' = [payments EXCEPT ![hs[h].oid] = RefundedRow(@)]
        /\ hs' = [hs EXCEPT ![h].pc = "wh_rpremium"]
        /\ UNCHANGED <<premium, webhooks, rateLimits, gateway, now, ticks, hist>>

\* the entitlement left as it is
Unrevoked(row) == row

\* the flag cleared and the expiry kept
RevokedFlagOnly(row) ==
    IF row = NoRow THEN NoRow ELSE [row EXCEPT !.isPremium = FALSE]

\* update premium_status set isPremium = false, expiresAt = null where userId
RevokedPremium(row) ==
    IF row = NoRow THEN NoRow ELSE [row EXCEPT !.isPremium = FALSE, !.expiresAt = NoTime]

WebhookRefundPremium ==
    \E h \in Handlers :
        /\ hs[h].pc = "wh_rpremium"
        /\ premium' = [premium EXCEPT ![hs[h].rowUser] = RevokedPremium(@)]
        /\ Respond(h, [hs[h] EXCEPT !.status = 200])
        /\ UNCHANGED <<payments, webhooks, rateLimits, gateway, now, ticks>>

\* ------------------------------------------------------------ failures
\* the positions of a handler between two of its store writes
BetweenWrites ==
    {"cap_readPremium", "cap_writePremium", "wh_find", "wh_update", "wh_readPremium",
     "wh_writePremium", "wh_rfind", "wh_rupdate", "wh_rpremium"}

\* the execution unit stops, or the store statement it awaits throws: the
\* rest of the handler does not run and the caller sees a 500
HandlerStops ==
    \E h \in Handlers :
        /\ hs[h].pc \in BetweenWrites
        /\ Respond(h, [hs[h] EXCEPT !.status = 500, !.stopped = TRUE])
        /\ UNCHANGED <<payments, premium, webhooks, rateLimits, gateway, now, ticks>>

\* ---------------------------------------------------------------- clock
Advance(steps) ==
    \E d \in steps :
        /\ ticks < MaxTicks
        /\ ticks' = ticks + 1
        /\ now' = now + d
        /\ UNCHANGED <<payments, premium, webhooks, rateLimits, gateway, hs, hist>>

\* ------------------------------------------------------- specification
Init ==
    /\ payments = [o \in OrderIds |-> NoRow]
    /\ premium = [u \in Users |-> NoRow]
    /\ webhooks = {}
    /\ rateLimits = EmptyBag
    /\ gateway = [nextOrder |-> 1, opened |-> [o \in OrderIds |-> NoAmount],
                  captured |-> [o \in OrderIds |-> NoAmount]]
    /\ now = 0
    /\ ticks = 0
    /\ hs = [h \in Handlers |-> Idle]
    /\ hist = [last |-> Idle, pre |-> Snapshot, prev |-> NoPrev,
               promoted |-> [o \in OrderIds |-> {}], granted |-> [o \in OrderIds |-> {}],
               rejected |-> 0,
               openedFor |-> [o \in OrderIds |-> [user |-> "none", key |-> "none"]]]

CreateOrderSteps ==
    \/ CreateOrderAuth
    \/ CreateOrderRateRead
    \/ CreateOrderRateWrite
    \/ CreateOrderIdempotency
    \/ CreateOrderPremium
    \/ CreateOrderGateway
    \/ CreateOrderInsert

CaptureSteps ==
    \/ CaptureRead
    \/ CaptureGateway
    \/ CaptureFail
    \/ CaptureUpdate
    \/ CaptureReadPremium
    \/ CaptureWritePremium

WebhookSteps ==
    \/ WebhookLookup
    \/ WebhookVerify
    \/ WebhookInsert
    \/ WebhookFind
    \/ WebhookUpdate
    \/ WebhookReadPremium
    \/ WebhookWritePremium
    \/ WebhookRefundFind
    \/ WebhookRefundUpdate
    \/ WebhookRefundPremium

\* One principal, one purchase, requests one after the other.
OneUser == {s \in Sessions : s.user \in {"none", "u1"}}

CreateOrderArrives == CreateOrderRequest(OneUser, Tiers, {"k1"}, MaxAttemptRows, TRUE)
CaptureArrives == CaptureRequest(OneUser, OrderIds, TRUE)
WebhookArrives == WebhookRequest(Notifications(TransmissionIds, OrderIds \cup {ForeignOrder}), TRUE)

\* the clock advances past the expiry of a monthly entitlement
MonthPasses == Advance({MonthlyDays * SecondsPerDay + 1})

Next ==
    \/ CreateOrderArrives
    \/ CaptureArrives
    \/ WebhookArrives
    \/ CreateOrderSteps
    \/ CaptureSteps
    \/ WebhookSteps
    \/ HandlerStops
    \/ MonthPasses

Spec == Init /\ [][Next]_vars

\* Bursts of create-order requests of one principal, one after the other.
Buyer == {[user |-> "u1", verified |-> TRUE]}

CreateOrderBurst == CreateOrderRequest(Buyer, ValidTiers, Keys, MaxBurstRows, TRUE)
WindowPasses == Advance({HalfWindow, RateWindowSeconds})

NextBurst ==
    \/ CreateOrderBurst
    \/ CreateOrderSteps
    \/ WindowPasses

SpecBurst == Init /\ [][NextBurst]_vars

\* One purchase of one principal; capture-order and the notifications of the
\* gateway overlap.
Authentic == {n \in Notifications(TransmissionIds, {1}) : n.sig /\ n.oid = 1}

CreateOrderFirst == CreateOrderRequest(Buyer, {"monthly"}, {"k1"}, 1, TRUE)
CaptureOverlaps == CaptureRequest(Buyer, {1}, FALSE)
WebhookOverlaps == WebhookRequest(Authentic, FALSE)

NextRace ==
    \/ CreateOrderFirst
    \/ CaptureOverlaps
    \/ WebhookOverlaps
    \/ CreateOrderSteps
    \/ CaptureSteps
    \/ WebhookSteps
    \/ HandlerStops
    \/ MonthPasses

SpecRace == Init /\ [][NextRace]_vars

\* One purchase of one principal, requests one after the other, no handler
\* stops; the runtime runs a started handler to its end and the gateway
\* keeps delivering the capture-completed notification of the order.
CompletedNotes == {n \in Notifications(TransmissionIds, {1}) : n.sig /\ n.ev = Completed}

CaptureRetries == CaptureRequest(Buyer, {1}, TRUE)
CompletedDelivered == WebhookRequest(CompletedNotes, TRUE)

CompletedSteps ==
    \/ WebhookLookup
    \/ WebhookVerify
    \/ WebhookInsert
    \/ WebhookFind
    \/ WebhookUpdate
    \/ WebhookReadPremium
    \/ WebhookWritePremium

NextHeal ==
    \/ CreateOrderFirst
    \/ CaptureRetries
    \/ CompletedDelivered
    \/ CreateOrderSteps
    \/ CaptureSteps
    \/ CompletedSteps

SpecHeal ==
    /\ Init
    /\ [][NextHeal]_vars
    /\ WF_vars(CreateOrderSteps \/ CaptureSteps \/ CompletedSteps)
    /\ SF_vars(CompletedDelivered)

\* Repeated purchases of one principal, requests one after the other: orders
\* are created, captured, notified as completed and refunded.
GatewayNotes == {n \in Notifications(TransmissionIds, OrderIds) : n.sig /\ n.oid \in OrderIds}

CreateOrderAgain == CreateOrderRequest(Buyer, ValidTiers, Keys, MaxRenewRows, TRUE)
CaptureAgain == CaptureRequest(Buyer, OrderIds, TRUE)
GatewayNotifies == WebhookRequest(GatewayNotes, TRUE)

NextRenew ==
    \/ CreateOrderAgain
    \/ CaptureAgain
    \/ GatewayNotifies
    \/ CreateOrderSteps
    \/ CaptureSteps
    \/ WebhookSteps

SpecRenew == Init /\ [][NextRenew]_vars

\* The same purchases with the server clock moving by a day between the steps.
DayPasses == Advance({SecondsPerDay})

NextExpiry ==
    \/ CreateOrderAgain
    \/ CaptureAgain
    \/ GatewayNotifies
    \/ CreateOrderSteps
    \/ CaptureSteps
    \/ WebhookSteps
    \/ DayPasses

SpecExpiry == Init /\ [][NextExpiry]_vars

\* create-order requests of one principal, one after the other, with an
\* idempotency key or with the empty string for it.
CreateOrderKeyed == CreateOrderRequest(Buyer, {"monthly"}, {"k1", EmptyKey}, MaxKeyRows, TRUE)

NextKeys ==
    \/ CreateOrderKeyed
    \/ CreateOrderSteps

SpecKeys == Init /\ [][NextKeys]_vars

\* create-order requests of two verified principals that overlap.
Buyers == {s \in Sessions : s.verified}

CreateOrderOverlaps == CreateOrderRequest(Buyers, {"monthly"}, Keys, MaxRaceRows, FALSE)

NextCreateRace ==
    \/ CreateOrderOverlaps
    \/ CreateOrderSteps

SpecCreateRace == Init /\ [][NextCreateRace]_vars

\* One principal sending create-order with one idempotency key over and over,
\* with any tier beside the key, while the order is captured, notified and
\* refunded.
CreateOrderReplayed ==
    \E t \in Tiers :
        /\ BagCardinality(rateLimits) < MaxReplayRows
        /\ Arrive([Idle EXCEPT !.pc = "co_auth", !.kind = "create-order", !.user = "u1",
                               !.verified = TRUE, !.tier = t, !.key = "k1"], TRUE)

NextReplay ==
    \/ CreateOrderReplayed
    \/ CaptureAgain
    \/ GatewayNotifies
    \/ CreateOrderSteps
    \/ CaptureSteps
    \/ WebhookSteps

SpecReplay == Init /\ [][NextReplay]_vars

\* One principal sending create-order requests that overlap.
CreateOrderFlood == CreateOrderRequest(Buyer, {"monthly"}, Keys, MaxFloodRows, FALSE)

NextFlood ==
    \/ CreateOrderFlood
    \/ CreateOrderSteps

SpecFlood == Init /\ [][NextFlood]_vars

\* Two principals ordering one after the other, free to pick the same
\* idempotency key.
CreateOrderByTenants == CreateOrderRequest(Buyers, ValidTiers, Keys, MaxTenantRows, TRUE)

NextTenants ==
    \/ CreateOrderByTenants
    \/ CreateOrderSteps

SpecTenants == Init /\ [][NextTenants]_vars

\* One purchase of one principal; capture-order requests of that principal
\* and of another one, one after the other.
Callers == Buyers \cup {s \in Sessions : s.user = "none"}

CaptureByAnyone == CaptureRequest(Callers, OrderIds, TRUE)

NextForeign ==
    \/ CreateOrderFirst
    \/ CaptureByAnyone
    \/ CreateOrderSteps
    \/ CaptureSteps

SpecForeign == Init /\ [][NextForeign]_vars

\* The rate limiter on its own: calls of checkRateLimit for two principals
\* and two actions and the periodic sweep, one after the other.
LimitedActions == {"create_payment", "login"}

CheckRateLimitCalled == CheckRateLimit(Users, LimitedActions, RateMaxAttempts, RateWindowSeconds, MaxLimiterRows)

NextLimiter ==
    \/ CheckRateLimitCalled
    \/ WindowPasses

SpecLimiter == Init /\ [][NextLimiter]_vars

\* The same with the periodic sweep running between the calls.
SweepRuns == CleanupRateLimits(CleanupHours)
SweepPeriodPasses == Advance({CleanupHours * SecondsPerHour})

NextSweep ==
    \/ CheckRateLimitCalled
    \/ SweepRuns
    \/ WindowPasses
    \/ SweepPeriodPasses

SpecSweep == Init /\ [][NextSweep]_vars

\* ---------------------------------------------------------------- claims
StatusOf(o) == IF payments[o] = NoRow THEN "none" ELSE payments[o].status

OwnerOf(o) == IF payments[o] = NoRow THEN "none" ELSE payments[o].userId

Entitled(u) == premium[u] # NoRow /\ premium[u].isPremium

\* the rows of rate_limits of user u and create_payment later than instant t
AttemptsAfter(tbl, u, t) ==
    BagCardinality([r \in {x \in BagToSet(tbl) : /\ x.userId = u
                                                 /\ x.action = "create_payment"
                                                 /\ x.attemptedAt > t} |-> CopiesIn(r, tbl)])

\* the ledger rows of (principal, idempotency key)
KeyRows(u, k) ==
    {o \in OrderIds : payments[o] # NoRow /\ payments[o].userId = u /\ payments[o].idempotencyKey = k}

\* C1: when capture-order and the handling of the order's capture-completed
\* notification overlap, the order is promoted to completed exactly once and
\* the entitlement is granted exactly once: never by both handlers, and a
\* completed order was promoted by one of them.
C1_ExactlyOnce ==
    \A o \in OrderIds :
        /\ Cardinality(hist.promoted[o]) <= 1
        /\ Cardinality(hist.granted[o]) <= 1
        /\ StatusOf(o) = "completed" => hist.promoted[o] # {}

\* C2: promotion and grant are one atomic unit: once no handler is running
\* (stopped handlers included), an order is completed only if its owner's
\* entitlement is granted, and an entitlement is granted only if an order of
\* its principal is completed.
C2_AtomicPromotion ==
    Quiescent =>
        /\ \A o \in OrderIds : StatusOf(o) = "completed" => Entitled(OwnerOf(o))
        /\ \A u \in Users : Entitled(u) => \E o \in OrderIds : OwnerOf(o) = u /\ StatusOf(o) = "completed"

\* C3: every principal with an active entitlement owns a completed order of
\* the entitlement's tier and expiry, which the gateway captured for the
\* canonical price of that tier.
C3_PaidEntitlement ==
    Quiescent =>
        \A u \in Users :
            (Entitled(u) /\ premium[u].expiresAt # NoTime) =>
                \E o \in OrderIds :
                    /\ OwnerOf(o) = u
                    /\ StatusOf(o) = "completed"
                    /\ payments[o].tier = premium[u].tier
                    /\ payments[o].expiresAt = premium[u].expiresAt
                    /\ gateway.captured[o] = TIER_PRICES[payments[o].tier]

\* C4 as claimed: a create-order request that repeats the request before it,
\* which was answered with a gateway order id, is answered with the same id,
\* opens no gateway order and leaves exactly one row of (principal, key).
C4_SameOrderTwice ==
    LET r == hist.last
    IN (r.kind = "create-order" /\ hist.prev.status = 200) =>
           /\ r.status = 200
           /\ r.outOrder = hist.prev.outOrder
           /\ "create" \notin r.calls
           /\ payments = hist.pre.payments
           /\ Cardinality(KeyRows(r.user, r.key)) = 1

\* C4 amended: the same, unless the rate limiter refuses the second request.
C4_SameOrderUnlessLimited ==
    LET r == hist.last
    IN (r.kind = "create-order" /\ hist.prev.status = 200 /\ r.status # 429) =>
           /\ r.status = 200
           /\ r.outOrder = hist.prev.outOrder
           /\ "create" \notin r.calls
           /\ payments = hist.pre.payments
           /\ Cardinality(KeyRows(r.user, r.key)) = 1

C4_Witness ==
    /\ hist.last.kind = "create-order"
    /\ hist.prev.status = 200
    /\ hist.last.status = 200
    /\ hist.last.outOrder = hist.prev.outOrder

\* C5: an authentic notification handled a second time, right after the first
\* handling of the same delivery id, is answered 200 without a signature
\* verification and without any change of the store; its delivery row is there.
C5_ReplayIsNoOp ==
    LET r == hist.last
    IN (r.kind = "webhook" /\ r.sig /\ hist.prev # NoPrev) =>
           /\ r.status = 200
           /\ "verify" \notin r.calls
           /\ Snapshot = hist.pre
           /\ r.tid \in webhooks

C5_Witness ==
    /\ hist.last.kind = "webhook"
    /\ hist.last.sig
    /\ hist.last.ev = Completed
    /\ hist.prev.status = 200
    /\ hist.last.status = 200
    /\ StatusOf(1) = "completed"

\* C6: capture-order that obtains from the gateway an amount other than the
\* canonical price of the order's tier answers 400, leaves the order failed
\* and the entitlement store as it was before the request.
C6_MismatchFails ==
    LET r == hist.last
    IN (/\ r.kind = "capture-order"
        /\ r.outAmt # NoAmount
        /\ r.outAmt # TIER_PRICES[payments[r.oid].tier]) =>
           /\ r.status = 400
           /\ payments[r.oid].status = "failed"
           /\ premium = hist.pre.premium

C6_Witness ==
    /\ hist.last.kind = "capture-order"
    /\ hist.last.outAmt = MonthlyPrice
    /\ hist.last.status = 400
    /\ payments[1].tier = "yearly"
    /\ payments[1].status = "failed"

\* C7: a create-order request of a principal with RateMaxAttempts attempts
\* recorded inside the window that ends when the limiter looks is answered
\* 429, calls no gateway, and leaves ledger and rate_limits as they were.
C7_RateLimited ==
    LET r == hist.last
    IN (/\ r.kind = "create-order"
        /\ r.status \notin {401, 403}
        /\ AttemptsAfter(hist.pre.rateLimits, r.user, r.at - RateWindowSeconds) >= RateMaxAttempts) =>
           /\ r.status = 429
           /\ r.calls = {}
           /\ payments = hist.pre.payments
           /\ rateLimits = hist.pre.rateLimits

C7_Witness ==
    /\ hist.last.kind = "create-order"
    /\ hist.last.status = 429
    /\ BagCardinality(rateLimits) = RateMaxAttempts

\* C8: the status of a ledger row changes only along pending -> completed,
\* pending -> failed, completed -> refunded.
C8_ForwardOnly ==
    [][\A o \in OrderIds :
          (payments[o] # NoRow /\ payments'[o].status # payments[o].status) =>
              <<payments[o].status, payments'[o].status>> \in
                  {<<"pending", "completed">>, <<"pending", "failed">>, <<"completed", "refunded">>}]_vars

\* C9: a notification that fails the signature verification is answered 401
\* and changes no table; its delivery id is not stored.
C9_BadSignature ==
    LET r == hist.last
    IN (r.kind = "webhook" /\ r.tid # "none" /\ ~r.sig /\ r.tid \notin hist.pre.webhooks) =>
           /\ r.status = 401
           /\ Snapshot = hist.pre
           /\ r.tid \notin webhooks

C9_Witness ==
    /\ hist.last.kind = "webhook"
    /\ hist.last.status = 401
    /\ hist.last.tid = "t1"
    /\ "t1" \notin webhooks
    /\ "t2" \in webhooks

\* C10: a handler that stored the delivery row of its notification answers
\* with a 2xx status.
C10_AckOncePersisted ==
    LET r == hist.last
    IN (r.kind = "webhook" /\ r.tid \in webhooks /\ r.tid \notin hist.pre.webhooks) =>
           r.status = 200

\* C11: a handler whose insert of the delivery row is rejected by the unique
\* constraint (another handler of the same delivery id stored it first)
\* answers with a 2xx status.
C11_DuplicateAcked == hist.rejected = 0 \/ (hist.rejected >= 200 /\ hist.rejected < 300)

\* C12: when the handling of an authentic capture-completed notification of a
\* pending order with the canonical amount stopped (500) after its delivery
\* row was stored, the handling of the gateway's retry of the same delivery
\* leaves the order completed and the owner's entitlement granted.
C12_RetryPromotes ==
    LET r == hist.last
    IN (/\ r.kind = "webhook" /\ r.sig /\ r.ev = Completed /\ r.oid \in OrderIds
        /\ hist.prev.status = 500
        /\ r.tid \in hist.pre.webhooks
        /\ hist.pre.payments[r.oid] # NoRow
        /\ hist.pre.payments[r.oid].status = "pending"
        /\ r.amt = TIER_PRICES[hist.pre.payments[r.oid].tier]) =>
           /\ StatusOf(r.oid) = "completed"
           /\ Entitled(OwnerOf(r.oid))

\* C13: a capture-order whose gateway call threw leaves the pending order
\* pending; and once the gateway has captured a pending order for the
\* canonical amount, the handling of its capture-completed notification
\* eventually leaves the order completed and the owner's entitlement active.
C13_CaptureFailureKeepsPending ==
    LET r == hist.last
    IN (r.kind = "capture-order" /\ r.status = 500 /\ r.outAmt = NoAmount) =>
           /\ payments = hist.pre.payments
           /\ StatusOf(r.oid) = "pending"

C13_ChargedPending ==
    /\ StatusOf(1) = "pending"
    /\ gateway.captured[1] = TIER_PRICES[payments[1].tier]

C13_Healed ==
    /\ StatusOf(1) = "completed"
    /\ Entitled(OwnerOf(1))
    /\ premium[OwnerOf(1)].tier = payments[1].tier
    /\ premium[OwnerOf(1)].expiresAt = payments[1].expiresAt

C13_WebhookHeals ==
    /\ []C13_CaptureFailureKeepsPending
    /\ C13_ChargedPending ~> C13_Healed

C13_Witness ==
    /\ hist.last.kind = "webhook"
    /\ hist.last.status = 200
    /\ hist.pre.payments[1] # NoRow
    /\ hist.pre.payments[1].status = "pending"
    /\ hist.promoted[1] = {"webhook"}
    /\ C13_Healed

\* C14: a create-order request whose gateway call failed is answered with an
\* error and leaves the ledger as it was; and every ledger row is the row of
\* an order that the gateway opened.
C14_NoOrphanedRow ==
    LET r == hist.last
    IN /\ (r.kind = "create-order" /\ "create-failed" \in r.calls) =>
              /\ r.status = 500
              /\ r.outOrder = 0
              /\ payments = hist.pre.payments
       /\ \A o \in OrderIds : payments[o] # NoRow => o < gateway.nextOrder

C14_Witness ==
    /\ hist.last.kind = "create-order"
    /\ "create-failed" \in hist.last.calls
    /\ hist.last.status = 500
    /\ hist.last.key = "k2"
    /\ payments[1] # NoRow
    /\ payments[2] = NoRow

\* the entitlement of u, as it was before the last request, runs beyond now
EntitledBefore(u) ==
    /\ hist.pre.premium[u] # NoRow
    /\ hist.pre.premium[u].isPremium
    /\ hist.pre.premium[u].expiresAt # NoTime
    /\ hist.pre.premium[u].expiresAt > now

\* the ledger rows of (principal, idempotency key) before the last request
KeyRowsBefore(u, k) ==
    {o \in OrderIds : /\ hist.pre.payments[o] # NoRow
                      /\ hist.pre.payments[o].userId = u
                      /\ hist.pre.payments[o].idempotencyKey = k}

\* C15 as claimed: a create-order request of a principal whose entitlement
\* expires in the future is answered 400, calls no gateway and leaves the
\* ledger as it was.
C15_AlreadyEntitled ==
    LET r == hist.last
    IN (r.kind = "create-order" /\ r.tier \in ValidTiers /\ EntitledBefore(r.user)) =>
           /\ r.status = 400
           /\ r.calls = {}
           /\ payments = hist.pre.payments

\* C15 amended: the same for a request that the rate limiter lets through and
\* whose idempotency key has no order of the principal yet; a request that
\* repeats the key of an order of the principal is answered 200 with that
\* order; in either case no gateway is called and the ledger is left as it was.
C15_AlreadyEntitledUnlessReplay ==
    LET r == hist.last
    IN (r.kind = "create-order" /\ r.tier \in ValidTiers /\ EntitledBefore(r.user)) =>
           /\ r.calls = {}
           /\ payments = hist.pre.payments
           /\ r.status \in {400, 200, 429}
           /\ (r.status # 429 /\ KeyRowsBefore(r.user, r.key) = {}) => r.status = 400
           /\ r.status = 200 => r.outOrder \in KeyRowsBefore(r.user, r.key)

C15_Witness ==
    /\ hist.last.kind = "create-order"
    /\ hist.last.key = "k2"
    /\ EntitledBefore("u1")
    /\ KeyRowsBefore("u1", "k2") = {}
    /\ hist.last.status = 400

\* the order of the last capture-order request, as its owner's row stood
\* before the request, was in one of the given statuses
CapturedIn(statuses) ==
    LET r == hist.last
    IN /\ r.kind = "capture-order"
       /\ r.oid \in OrderIds
       /\ hist.pre.payments[r.oid] # NoRow
       /\ hist.pre.payments[r.oid].userId = r.user
       /\ hist.pre.payments[r.oid].status \in statuses

\* C16: capture-order on an order of the caller that is completed, failed or
\* refunded calls no gateway and leaves the ledger and the entitlement store
\* as they were.
C16_NonPendingUntouched ==
    CapturedIn({"completed", "failed", "refunded"}) =>
        /\ hist.last.calls = {}
        /\ payments = hist.pre.payments
        /\ premium = hist.pre.premium

C16_Witness ==
    /\ CapturedIn({"completed"})
    /\ Entitled(hist.last.user)
    /\ hist.last.status = 400
    /\ \E o \in OrderIds : StatusOf(o) = "failed"

\* C17: capture-order on a completed order of the caller is answered with a
\* success response that carries the tier and the expiry of the row.
C17_CompletedIsSuccess ==
    CapturedIn({"completed"}) =>
        /\ hist.last.status = 200
        /\ hist.last.outTier = payments[hist.last.oid].tier
        /\ hist.last.outExp = payments[hist.last.oid].expiresAt

\* the last request was the first delivery, handled to its 200, of an
\* authentic refund notification for an order in one of the given statuses
RefundHandled(statuses) ==
    LET r == hist.last
    IN /\ r.kind = "webhook" /\ r.sig /\ r.ev = Refunded /\ r.oid \in OrderIds
       /\ r.status = 200
       /\ r.tid \notin hist.pre.webhooks
       /\ hist.pre.payments[r.oid] # NoRow
       /\ hist.pre.payments[r.oid].status \in statuses

\* C18: after the refund notification of a completed order is handled the
\* order is refunded and its owner's entitlement row is inactive with no
\* expiry; and a principal whose entitlement row is inactive passes the
\* entitlement guard of create-order (a new key opens a new order).
C18_RefundRevokes ==
    LET r == hist.last
    IN /\ RefundHandled({"completed"}) =>
              /\ StatusOf(r.oid) = "refunded"
              /\ premium[OwnerOf(r.oid)] # NoRow
              /\ ~premium[OwnerOf(r.oid)].isPremium
              /\ premium[OwnerOf(r.oid)].expiresAt = NoTime
       /\ (/\ r.kind = "create-order" /\ r.tier \in ValidTiers
           /\ hist.pre.premium[r.user] # NoRow
           /\ ~hist.pre.premium[r.user].isPremium
           /\ KeyRowsBefore(r.user, r.key) = {}
           /\ r.status # 429
           /\ "create-failed" \notin r.calls) =>
              /\ r.status = 200
              /\ "create" \in r.calls
              /\ StatusOf(r.outOrder) = "pending"

C18_Witness ==
    /\ RefundHandled({"completed"})
    /\ hist.pre.premium["u1"] # NoRow
    /\ hist.pre.premium["u1"].isPremium
    /\ StatusOf(hist.last.oid) = "refunded"
    /\ ~Entitled("u1")

\* before the last request the entitlement of u was active with the tier and
\* expiry of the completed order o
EntitledByBefore(u, o) ==
    /\ hist.pre.payments[o] # NoRow
    /\ hist.pre.payments[o].userId = u
    /\ hist.pre.payments[o].status = "completed"
    /\ hist.pre.premium[u] # NoRow
    /\ hist.pre.premium[u].isPremium
    /\ hist.pre.premium[u].tier = hist.pre.payments[o].tier
    /\ hist.pre.premium[u].expiresAt = hist.pre.payments[o].expiresAt

\* C19: handling the refund notification of a completed order X leaves the
\* entitlement of X's owner as it was when that entitlement is active with
\* the tier and expiry of another completed order of the owner, which
\* granted it after X, and not with those of X.
C19_RefundSparesLaterPurchase ==
    LET r == hist.last
    IN RefundHandled({"completed"}) =>
           \A o \in OrderIds \ {r.oid} :
               (/\ EntitledByBefore(hist.pre.payments[r.oid].userId, o)
                /\ ~EntitledByBefore(hist.pre.payments[r.oid].userId, r.oid)) =>
                   premium = hist.pre.premium

\* the last request was a create-order request of a verified principal with
\* a tier other than monthly and yearly
BadTierAnswered ==
    /\ hist.last.kind = "create-order"
    /\ hist.last.status \notin {401, 403}
    /\ hist.last.tier \notin ValidTiers

\* C20 as claimed: a create-order request with a tier outside {monthly,
\* yearly} is answered with a 4xx, calls no gateway and leaves the ledger and
\* the rate_limits table as they were.
C20_BadTierNoSideEffect ==
    BadTierAnswered =>
        /\ hist.last.status >= 400 /\ hist.last.status < 500
        /\ hist.last.calls = {}
        /\ payments = hist.pre.payments
        /\ rateLimits = hist.pre.rateLimits

\* C20 amended: such a request is answered with a 4xx, calls no gateway and
\* leaves the ledger as it was; unless the rate limiter refuses it (429) it
\* is answered 400 and one attempt of the principal is recorded.
C20_BadTierCountsAsAttempt ==
    LET r == hist.last
    IN BadTierAnswered =>
           /\ r.status \in {400, 429}
           /\ r.calls = {}
           /\ payments = hist.pre.payments
           /\ premium = hist.pre.premium
           /\ r.status = 429 => rateLimits = hist.pre.rateLimits
           /\ r.status = 400 =>
                  rateLimits = hist.pre.rateLimits (+)
                                   SetToBag({[userId |-> r.user, action |-> "create_payment",
                                              attemptedAt |-> r.at]})

C20_Witness ==
    /\ BadTierAnswered
    /\ hist.last.status = 400
    /\ BagCardinality(rateLimits) = 2
    /\ BagCardinality(hist.pre.rateLimits) = 1
    /\ payments[1] # NoRow

\* C21: a create-order request of a verified principal with a valid tier and
\* an empty idempotency key is answered with a 4xx, opens no gateway order
\* and leaves the ledger as it was.
C21_EmptyKeyRejected ==
    LET r == hist.last
    IN (r.kind = "create-order" /\ r.tier \in ValidTiers /\ r.key = EmptyKey) =>
           /\ r.status >= 400 /\ r.status < 500
           /\ "create" \notin r.calls
           /\ payments = hist.pre.payments

\* C22: no two ledger rows share an idempotency key, so there is at most one
\* row per (principal, idempotency key); every row is held under the order id
\* the gateway issued for it, and the gateway has issued that id.
C22_UniqueRows ==
    /\ \A o1, o2 \in OrderIds :
           (payments[o1] # NoRow /\ payments[o2] # NoRow /\ o1 # o2) =>
               payments[o1].idempotencyKey # payments[o2].idempotencyKey
    /\ \A u \in Users, k \in Keys : Cardinality(KeyRows(u, k)) <= 1
    /\ \A o \in OrderIds : payments[o] # NoRow => o < gateway.nextOrder

\* a handler is about to insert a row whose key another row already holds
C22_Witness ==
    \E h \in Handlers, o \in OrderIds :
        /\ hs[h].pc = "co_insert"
        /\ ~hs[h].serial
        /\ payments[o] # NoRow
        /\ payments[o].idempotencyKey = hs[h].key
        /\ payments[o].userId = hs[h].user

\* C23: capture-order of an authenticated principal that names an order whose
\* row belongs to another principal is answered 404, calls no gateway and
\* leaves the ledger and the entitlement store as they were.
C23_OwnOrdersOnly ==
    LET r == hist.last
    IN (/\ r.kind = "capture-order" /\ r.user # "none" /\ r.oid \in OrderIds
        /\ hist.pre.payments[r.oid] # NoRow
        /\ hist.pre.payments[r.oid].userId # r.user) =>
           /\ r.status = 404
           /\ r.calls = {}
           /\ payments = hist.pre.payments
           /\ premium = hist.pre.premium

C23_Witness ==
    /\ hist.last.kind = "capture-order"
    /\ hist.last.user = "u2"
    /\ hist.last.oid = 1
    /\ OwnerOf(1) = "u1"
    /\ StatusOf(1) = "pending"
    /\ hist.last.status = 404

\* C24: a create-order request without a session is answered 401 and one of
\* a principal whose email is not verified 403, with no gateway call and the
\* rate_limits table, the ledger and the rest of the store as they were.
C24_VerifiedOnly ==
    LET r == hist.last
    IN (r.kind = "create-order" /\ (r.user = "none" \/ ~r.verified)) =>
           /\ r.status = IF r.user = "none" THEN 401 ELSE 403
           /\ r.calls = {}
           /\ Snapshot = hist.pre

C24_Witness ==
    /\ hist.last.kind = "create-order"
    /\ hist.last.user = "u1"
    /\ ~hist.last.verified
    /\ hist.last.status = 403
    /\ StatusOf(1) = "completed"

\* C25: a step of a webhook handler that changes the ledger or the
\* entitlement store is taken when the delivery row of its delivery id is
\* stored and its signature was verified as authentic; the delivery row is
\* stored by the step after the verification, and the verification is called
\* by the step after the replay guard.
C25_Step(h) ==
    (hs[h].kind = "webhook" /\ hs'[h] # hs[h]) =>
        /\ (payments' # payments \/ premium' # premium) =>
               /\ hs[h].tid \in webhooks
               /\ "verify" \in hs[h].calls
               /\ hs[h].sig
               /\ hs[h].pc \notin {"wh_lookup", "wh_verify", "wh_insert"}
        /\ webhooks' # webhooks =>
               /\ hs[h].pc = "wh_insert"
               /\ "verify" \in hs[h].calls
               /\ hs[h].sig
               /\ webhooks' = webhooks \cup {hs[h].tid}
        /\ ("verify" \notin hs[h].calls /\ "verify" \in hs'[h].calls) =>
               /\ hs[h].pc = "wh_verify"
               /\ hs[h].tid \notin webhooks \/ ~hs[h].serial

C25_GuardVerifyInsertDispatch == [][\A h \in Handlers : C25_Step(h)]_vars

C25_Witness ==
    /\ hist.last.kind = "webhook"
    /\ hist.last.ev = Refunded
    /\ hist.last.status = 200
    /\ hist.last.tid \in webhooks
    /\ "verify" \in hist.last.calls
    /\ payments # hist.pre.payments
    /\ premium # hist.pre.premium

\* the recorded attempts of (u, a) later than from and not later than to
AttemptsIn(tbl, u, a, from, to) ==
    SumCopies({r \in BagToSet(tbl) : /\ r.userId = u /\ r.action = a
                                     /\ r.attemptedAt > from /\ r.attemptedAt <= to}, tbl)

AttemptTimes(tbl) == {r.attemptedAt : r \in BagToSet(tbl)}

\* C26: checkRateLimit counts the attempts of its own (principal, action)
\* inside the trailing window (now - windowSeconds, now]; with a count of at
\* least maxAttempts it returns false and records nothing, otherwise it
\* records exactly one attempt and returns true; after any run of sequential
\* calls no (principal, action) has more than maxAttempts recorded attempts
\* in any trailing window, whatever other principals and actions recorded.
C26_SlidingWindow ==
    /\ hist.last.kind = "checkRateLimit" =>
          LET r == hist.last
              own == AttemptsIn(hist.pre.rateLimits, r.user, r.action, r.at - RateWindowSeconds, r.at)
          IN /\ r.cnt = own
             /\ own >= RateMaxAttempts => r.status = 0 /\ rateLimits = hist.pre.rateLimits
             /\ own < RateMaxAttempts =>
                   /\ r.status = 1
                   /\ rateLimits = hist.pre.rateLimits
                                     (+) SetToBag({[userId |-> r.user, action |-> r.action, attemptedAt |-> r.at]})
    /\ \A u \in Users, a \in LimitedActions, t \in AttemptTimes(rateLimits) \cup {now} :
          AttemptsIn(rateLimits, u, a, t - RateWindowSeconds, t) <= RateMaxAttempts

\* a call refused at the limit while another principal has attempts in the
\* same window, after the clock moved
C26_Witness ==
    /\ hist.last.kind = "checkRateLimit"
    /\ hist.last.status = 0
    /\ hist.last.cnt = RateMaxAttempts
    /\ now > 0
    /\ \E r \in BagToSet(rateLimits) : r.userId # hist.last.user /\ r.attemptedAt > now - RateWindowSeconds

\* C27: a run of cleanupRateLimits removes only attempts older than the
\* cutoff now - olderThanHours and keeps every attempt newer than the cutoff,
\* so the count checkRateLimit sees in its window is the same before and
\* after the sweep and a principal at the limit stays at the limit.
C27_SweepKeepsRecent ==
    hist.last.kind = "cleanupRateLimits" =>
        LET cutoff == hist.last.at - CleanupHours * SecondsPerHour
        IN /\ \A r \in BagToSet(hist.pre.rateLimits) :
                 r.attemptedAt > cutoff => CopiesIn(r, rateLimits) = CopiesIn(r, hist.pre.rateLimits)
           /\ \A u \in Users, a \in LimitedActions :
                 AttemptsIn(rateLimits, u, a, hist.last.at - RateWindowSeconds, hist.last.at)
                     = AttemptsIn(hist.pre.rateLimits, u, a, hist.last.at - RateWindowSeconds, hist.last.at)

\* C28: in every reachable state the amount of each ledger row is the price
\* of the row's tier in TIER_PRICES (499 or 2999 cents) and is the amount the
\* row's gateway order was opened for; no step of capture, webhook or refund
\* handling changes the amount or the tier of a stored row.
C28_CanonicalAmount ==
    /\ [](\A o \in OrderIds : payments[o] # NoRow =>
              /\ payments[o].tier \in ValidTiers
              /\ payments[o].amount = TIER_PRICES[payments[o].tier]
              /\ gateway.opened[o] = payments[o].amount)
    /\ [][\A o \in OrderIds : payments[o] # NoRow =>
              /\ payments'[o] # NoRow
              /\ payments'[o].amount = payments[o].amount
              /\ payments'[o].tier = payments[o].tier]_vars

\* a yearly order that was completed for the captured 2999 cents and then
\* refunded
C28_Witness ==
    \E o \in OrderIds :
        /\ payments[o] # NoRow /\ payments[o].tier = "yearly" /\ payments[o].status = "refunded"
        /\ hist.promoted[o] # {}
        /\ gateway.captured[o] = YearlyPrice

\* the ledger row a notification's order had when the request arrived
RowBefore(oid) == IF oid \in OrderIds THEN hist.pre.payments[oid] ELSE NoRow

\* the last request was an authentic, first-time delivery of a completed
\* capture that the handler ran to its response
CompletedHandled ==
    /\ hist.last.kind = "webhook"
    /\ hist.last.pc = "done"
    /\ ~hist.last.stopped
    /\ hist.last.ev = Completed
    /\ hist.last.sig
    /\ hist.last.tid \notin hist.pre.webhooks

\* C29: an authentic completed-capture notification that the handler runs to
\* its response changes neither ledger nor entitlement store when its order
\* is unknown, or is not pending, or is pending with a reported amount other
\* than the price of its tier (the order then stays pending); in the three
\* cases the delivery row is stored and the answer is 200.
C29_CompletedNoOps ==
    LET r == hist.last
        row == RowBefore(r.oid)
    IN (/\ CompletedHandled
        /\ \/ row = NoRow
           \/ row.status # "pending"
           \/ r.amt # TIER_PRICES[row.tier]) =>
           /\ r.status = 200
           /\ payments = hist.pre.payments
           /\ premium = hist.pre.premium
           /\ webhooks = hist.pre.webhooks \cup {r.tid}

\* a charged order left pending by a lost capture answer, notified with an
\* amount that is not the price of its tier
C29_Witness ==
    /\ CompletedHandled
    /\ hist.last.status = 200
    /\ RowBefore(hist.last.oid) # NoRow
    /\ StatusOf(hist.last.oid) = "pending"
    /\ hist.last.amt # TIER_PRICES[payments[hist.last.oid].tier]
    /\ hist.last.tid \in webhooks

\* the last request, a capture-order or a completed-capture notification,
\* found its order pending and left it completed
CompletedBy(kind) ==
    /\ hist.last.kind = kind
    /\ hist.last.pc = "done"
    /\ hist.last.oid \in OrderIds
    /\ hist.pre.payments[hist.last.oid] # NoRow
    /\ hist.pre.payments[hist.last.oid].status = "pending"
    /\ StatusOf(hist.last.oid) = "completed"

\* C30: an order completed by capture-order or by the webhook, the handler
\* reading the server time at, has the stored expiry at + 30 days (monthly)
\* or at + 365 days (yearly); when the handler has answered, the entitlement
\* row of the order's owner is premium with the tier and the expiry of the
\* order, both when the row was inserted and when it was updated.
C30_ExpiryAndGrant ==
    \A kind \in {"capture-order", "webhook"} :
        CompletedBy(kind) =>
            LET r == hist.last
                row == payments[r.oid]
                days == IF row.tier = "monthly" THEN 30 ELSE 365
            IN /\ r.at <= now
               /\ row.expiresAt = r.at + days * 86400
               /\ r.status = 200
               /\ premium[row.userId] =
                      [present |-> TRUE, isPremium |-> TRUE, tier |-> row.tier,
                       expiresAt |-> row.expiresAt]
               /\ Entitled(row.userId)

\* a yearly order completed by the webhook a day after the start, its owner
\* already holding an entitlement row
C30_Witness ==
    /\ CompletedBy("webhook")
    /\ hist.last.at > 0
    /\ payments[hist.last.oid].tier = "yearly"
    /\ hist.pre.premium[payments[hist.last.oid].userId] # NoRow
    /\ premium[payments[hist.last.oid].userId].expiresAt = hist.last.at + 365 * 86400

\* the instant a completed order's entitlement period began
PeriodStart(o) ==
    payments[o].expiresAt
        - (IF payments[o].tier = "monthly" THEN MonthlyDays ELSE YearlyDays) * SecondsPerDay

\* C31: no principal has two completed (not refunded) orders whose
\* entitlement periods overlap: an order is never completed for a principal
\* who holds an unexpired entitlement from another order.
C31_NoDuplicatePayment ==
    \A o, p \in OrderIds :
        (/\ o # p
         /\ StatusOf(o) = "completed" /\ StatusOf(p) = "completed"
         /\ OwnerOf(o) = OwnerOf(p)) =>
            \/ payments[o].expiresAt <= PeriodStart(p)
            \/ payments[p].expiresAt <= PeriodStart(o)

\* the gateway orders opened by create-order requests of (principal, key)
OpenedFor(u, k) == {o \in OrderIds : hist.openedFor[o] = [user |-> u, key |-> k]}

\* C32: when create-order requests of one principal with one idempotency key
\* overlap, exactly one gateway order is opened for them and exactly one
\* ledger row is written (the order every one of the requests returns).
C32_OverlappingRetries ==
    \A u \in Users, k \in Keys :
        /\ Cardinality(OpenedFor(u, k)) <= 1
        /\ Cardinality(KeyRows(u, k)) <= 1
        /\ KeyRows(u, k) \subseteq OpenedFor(u, k)
        /\ (Quiescent /\ OpenedFor(u, k) # {}) => KeyRows(u, k) = OpenedFor(u, k)

C34_FlagWithExpiry ==
    \A u \in Users :
        premium[u] # NoRow => (premium[u].isPremium <=> premium[u].expiresAt # NoTime)

\* a granted entitlement that a refund revoked
C34_Witness ==
    \E u \in Users, o \in OrderIds :
        /\ premium[u] # NoRow
        /\ ~premium[u].isPremium
        /\ premium[u].expiresAt = NoTime
        /\ OwnerOf(o) = u
        /\ StatusOf(o) = "refunded"
        /\ hist.granted[o] # {}

\* C35: after an order of a principal was completed, by capture-order or by
\* the webhook, the principal's entitlement does not expire earlier than it
\* did before that completion.
C35_NeverShortened ==
    \A kind \in {"capture-order", "webhook"} :
        CompletedBy(kind) =>
            LET u == OwnerOf(hist.last.oid)
            IN (hist.pre.premium[u] # NoRow /\ hist.pre.premium[u].expiresAt # NoTime) =>
                   /\ premium[u] # NoRow
                   /\ premium[u].expiresAt >= hist.pre.premium[u].expiresAt

\* C36: a create-order request for which the gateway opened an order is
\* answered 200 with that order stored as the principal's pending row of the
\* key, whether or not another principal has used the same key.
C36_KeysPerPrincipal ==
    LET r == hist.last
    IN (r.kind = "create-order" /\ r.calls = {"create"}) =>
           /\ r.status = 200
           /\ KeyRows(r.user, r.key) = {r.outOrder}
           /\ StatusOf(r.outOrder) = "pending"

\* the last request was a create-order request of a verified principal whose
\* idempotency key had a ledger row of the principal when it arrived
ReplayAnswered ==
    /\ hist.last.kind = "create-order"
    /\ hist.last.status \notin {401, 403}
    /\ KeyRowsBefore(hist.last.user, hist.last.key) # {}

\* the answer carries order id, amount and tier of a row the key had
ReturnsExistingRow ==
    /\ hist.last.status = 200
    /\ hist.last.outOrder \in KeyRowsBefore(hist.last.user, hist.last.key)
    /\ hist.last.outAmt = hist.pre.payments[hist.last.outOrder].amount
    /\ hist.last.outTier = hist.pre.payments[hist.last.outOrder].tier

RefundDone(o) ==
    /\ StatusOf(o) = "refunded"
    /\ \A h \in Handlers : ~(hs[h].oid = o /\ hs[h].pc \in {"wh_rupdate", "wh_rpremium"})

\* C38: once the refund notification of an order has been handled, no step
\* of a capture-order or completed-capture handling that was in flight for
\* the order sets it back to completed or grants the entitlement on account
\* of it.
C38_RefundedIsTerminal ==
    [][\A o \in OrderIds :
          RefundDone(o) =>
              /\ payments'[o].status = "refunded"
              /\ hist'.granted[o] = hist.granted[o]]_vars

\* C39: also when create-order requests of one principal overlap, the
\* requests that pass checkRateLimit inside one window, each recorded as an
\* attempt and each going on to the gateway, are never more than
\* RateMaxAttempts.
C39_LimitUnderOverlap ==
    \A u \in Users :
        AttemptsIn(rateLimits, u, "create_payment", now - RateWindowSeconds, now) <= RateMaxAttempts
====
